---- MODULE Spec2Model ----
(***************************************************************************)
(* Positional inverted index and phrase queries of                         *)
(* IR_InvertedMatrix_Workshop.ipynb.                                       *)
(*                                                                         *)
(* A text is a sequence of one-character strings, a token a sequence of    *)
(* characters, a token stream a sequence of tokens.  The notebook defines  *)
(* the pipeline twice: the Step 4 cell normalizes with normalize_tokens    *)
(* (stopword removal and stemming), the phrase query test cell with        *)
(* basic_tokenizer.  The variable mode says which cell is running.         *)
(***************************************************************************)
EXTENDS Integers, Sequences, FiniteSets, TLC

VARIABLES mode, docs, inverted_index, pc, op, q_phrase, q_tokens, q_doc, q_docs,
          result

vars ==
    <<mode, docs, inverted_index, pc, op, q_phrase, q_tokens, q_doc, q_docs, result>>

(***************************************************************************)
(* Bounds of the model.                                                    *)
(***************************************************************************)
MaxDocs == 2
MaxWords == 3
MaxPhraseWords == 3

(***************************************************************************)
(* Characters.                                                             *)
(***************************************************************************)
UpperCase ==
    <<"A","B","C","D","E","F","G","H","I","J","K","L","M",
      "N","O","P","Q","R","S","T","U","V","W","X","Y","Z">>

LowerCase ==
    <<"a","b","c","d","e","f","g","h","i","j","k","l","m",
      "n","o","p","q","r","s","t","u","v","w","x","y","z">>

Digits == {"0","1","2","3","4","5","6","7","8","9"}

Whitespace == {" ", "\t", "\n", "\r"}

Range(s) == {s[i] : i \in DOMAIN s}

\* str.lower() on one character
lower_char(c) ==
    IF \E i \in DOMAIN UpperCase : UpperCase[i] = c
    THEN LowerCase[CHOOSE i \in DOMAIN UpperCase : UpperCase[i] = c]
    ELSE c

\* text.lower()
lower(text) == [i \in DOMAIN text |-> lower_char(text[i])]

\* the complement of the class [^a-z0-9\s]
kept_char(c) == c \in Range(LowerCase) \cup Digits \cup Whitespace

\* re.sub with a slip: a blank is put where a character is deleted
re_sub_blank(text) ==
    [i \in DOMAIN text |-> IF kept_char(text[i]) THEN text[i] ELSE " "]

\* re.sub(r'[^a-z0-9\s]', '', text): every other character is deleted and
\* its neighbours are joined
re_sub(text) == SelectSeq(text, kept_char)

\* text.split(): the maximal runs of non-whitespace characters, in order;
\* leading, trailing and repeated whitespace yields no empty token
split(text) ==
    LET starts == { i \in DOMAIN text :
                      /\ text[i] \notin Whitespace
                      /\ (i = 1 \/ text[i - 1] \in Whitespace) }
        last(i) == CHOOSE j \in i .. Len(text) :
                      /\ \A k \in i .. j : text[k] \notin Whitespace
                      /\ (j = Len(text) \/ text[j + 1] \in Whitespace)
        nth(n)  == CHOOSE i \in starts : Cardinality({ j \in starts : j < i }) = n - 1
    IN  [n \in 1 .. Cardinality(starts) |-> SubSeq(text, nth(n), last(nth(n)))]

\* basic_tokenizer of the phrase query test cell
basic_tokenizer(text) == split(re_sub(lower(text)))

\* stopwords.words('english'), restricted to the words the model's texts can
\* produce (all of them are in NLTK's English list)
stop_words ==
    { <<"t","h","e">>, <<"a">>, <<"i","s">>, <<"o","f">>,
      <<"a","b","o","u","t">>, <<"s">>, <<"t">> }

EndsWith(w, suf) ==
    /\ Len(w) >= Len(suf)
    /\ SubSeq(w, Len(w) - Len(suf) + 1, Len(w)) = suf

DropLast(w, n) == SubSeq(w, 1, Len(w) - n)

\* PorterStemmer().stem(word): words of at most two letters are returned
\* unchanged; step 1a rewrites the plural suffixes.  The later steps of the
\* algorithm leave every token of the model's bounded texts unchanged.
stem(word) ==
    IF Len(word) <= 2 THEN word
    ELSE IF EndsWith(word, <<"s","s","e","s">>) THEN DropLast(word, 2)
    ELSE IF EndsWith(word, <<"i","e","s">>)
         THEN IF Len(word) = 4 THEN DropLast(word, 1) ELSE DropLast(word, 2)
    ELSE IF EndsWith(word, <<"s","s">>) THEN word
    ELSE IF EndsWith(word, <<"s">>) THEN DropLast(word, 1)
    ELSE word

not_stop_word(t) == t \notin stop_words

\* normalize_tokens with a slip: a stopword is blanked, not dropped, so the
\* tokens after it keep their raw positions
normalize_tokens_gap(text) ==
    LET tokens == split(re_sub(lower(text)))
    IN  [i \in DOMAIN tokens |->
            IF tokens[i] \in stop_words THEN <<>> ELSE stem(tokens[i])]

\* normalize_tokens of the Step 4 cell
normalize_tokens(text) ==
    LET tokens == split(re_sub(lower(text)))
        filtered == SelectSeq(tokens, not_stop_word)
    IN  [i \in DOMAIN filtered |-> stem(filtered[i])]

\* the normalizer the running cell calls
Normalizer(m, text) ==
    IF m = "normalize" THEN normalize_tokens(text) ELSE basic_tokenizer(text)

Modes == {"normalize", "basic"}

(***************************************************************************)
(* The index: a dict term -> dict doc_id -> list of positions.             *)
(***************************************************************************)
EmptyDict == <<>>

\* add_posting with a slip: only the first occurrence of a term in a document
\* is recorded
add_posting_first_only(idx, token, doc_id, pos) ==
    LET i1 == IF token \in DOMAIN idx THEN idx ELSE idx @@ (token :> EmptyDict)
    IN  IF doc_id \in DOMAIN i1[token]
        THEN i1
        ELSE [i1 EXCEPT ![token] = @ @@ (doc_id :> <<pos>>)]

\* body of the inner loop of build_inverted_index
add_posting(idx, token, doc_id, pos) ==
    LET i1 == IF token \in DOMAIN idx THEN idx ELSE idx @@ (token :> EmptyDict)
        i2 == IF doc_id \in DOMAIN i1[token]
              THEN i1
              ELSE [i1 EXCEPT ![token] = @ @@ (doc_id :> <<>>)]
    IN  [i2 EXCEPT ![token][doc_id] = Append(@, pos)]

\* for pos, token in enumerate(tokens)
RECURSIVE index_tokens(_, _, _, _)
index_tokens(idx, tokens, doc_id, i) ==
    IF i > Len(tokens) THEN idx
    ELSE index_tokens(add_posting(idx, tokens[i], doc_id, i - 1),
                      tokens, doc_id, i + 1)

\* index_docs with a slip: a document without tokens takes no doc id, the
\* documents after it are numbered one lower
RECURSIVE index_docs_skip_empty(_, _, _, _)
index_docs_skip_empty(idx, m, ds, k) ==
    IF k > Len(ds) THEN idx
    ELSE index_docs_skip_empty(
             index_tokens(idx, Normalizer(m, ds[k]),
                          Cardinality({ j \in 1 .. k - 1 : Normalizer(m, ds[j]) # <<>> }),
                          1),
             m, ds, k + 1)

\* for doc_id, text in enumerate(docs)
RECURSIVE index_docs(_, _, _, _)
index_docs(idx, m, ds, k) ==
    IF k > Len(ds) THEN idx
    ELSE index_docs(index_tokens(idx, Normalizer(m, ds[k]), k - 1, 1),
                    m, ds, k + 1)

build_inverted_index(m, ds) == index_docs(EmptyDict, m, ds, 1)

(***************************************************************************)
(* Phrase queries.  A call either returns a value or raises; exc names     *)
(* the exception ("none" when the call returned), val the returned value,  *)
(* and examined whether the position lists were read.                      *)
(***************************************************************************)
Returned(v, ex) == [exc |-> "none", val |-> v, examined |-> ex]

Raised(e) == [exc |-> e, val |-> FALSE, examined |-> FALSE]

\* the first loop of phrase_in_doc returns False at the first token that has
\* no postings for doc_id
missing_posting(idx, phrase_tokens, doc_id) ==
    \E i \in DOMAIN phrase_tokens :
        \/ phrase_tokens[i] \notin DOMAIN idx
        \/ doc_id \notin DOMAIN idx[phrase_tokens[i]]

\* anchor_matches with slips: an offset counted from 2, any() for all(), and
\* the positions ignored
anchor_matches_off_by_one(positions_lists, start_pos) ==
    \A offset \in 1 .. Len(positions_lists) - 1 :
        start_pos + offset + 1 \in Range(positions_lists[offset + 1])

anchor_matches_any(positions_lists, start_pos) ==
    \E offset \in 1 .. Len(positions_lists) - 1 :
        start_pos + offset \in Range(positions_lists[offset + 1])

anchor_matches_unordered(positions_lists, start_pos) ==
    \A offset \in 1 .. Len(positions_lists) - 1 :
        positions_lists[offset + 1] # <<>>

\* anchor_matches with a slip: only the last token of the phrase is looked
\* for at its offset
anchor_matches_last_only(positions_lists, start_pos) ==
    \/ Len(positions_lists) = 1
    \/ start_pos + Len(positions_lists) - 1
           \in Range(positions_lists[Len(positions_lists)])

\* all((start_pos + offset) in positions_lists[offset]
\*     for offset in range(1, len(positions_lists)))
anchor_matches(positions_lists, start_pos) ==
    \A offset \in 1 .. Len(positions_lists) - 1 :
        start_pos + offset \in Range(positions_lists[offset + 1])

\* phrase_in_doc with a slip: no membership test before the lookup
phrase_in_doc_unguarded(idx, phrase_tokens, doc_id) ==
    IF missing_posting(idx, phrase_tokens, doc_id)
    THEN Raised("KeyError")
    ELSE LET positions_lists ==
                 [i \in DOMAIN phrase_tokens |-> idx[phrase_tokens[i]][doc_id]]
         IN  IF Len(positions_lists) = 0
             THEN Raised("IndexError")
             ELSE Returned(\E k \in DOMAIN positions_lists[1] :
                               anchor_matches(positions_lists, positions_lists[1][k]),
                           TRUE)

phrase_in_doc(idx, phrase_tokens, doc_id) ==
    IF missing_posting(idx, phrase_tokens, doc_id)
    THEN Returned(FALSE, FALSE)
    ELSE LET positions_lists ==
                 [i \in DOMAIN phrase_tokens |-> idx[phrase_tokens[i]][doc_id]]
         IN  IF Len(positions_lists) = 0
             THEN Raised("IndexError")            \* positions_lists[0]
             ELSE Returned(\E k \in DOMAIN positions_lists[1] :
                               anchor_matches(positions_lists, positions_lists[1][k]),
                           TRUE)

\* index_after_phrase_in_doc with a slip: the lookup is written as
\* inverted_index.setdefault(token, {}), which creates the key of a term the
\* index does not hold
index_after_phrase_in_doc_setdefault(idx, phrase_tokens, doc_id) ==
    LET unknown == { i \in DOMAIN phrase_tokens : phrase_tokens[i] \notin DOMAIN idx }
    IN  IF unknown = {} THEN idx
        ELSE LET first == CHOOSE i \in unknown : \A j \in unknown : i <= j
             IN  idx @@ (phrase_tokens[first] :> EmptyDict)

\* the index a call of phrase_in_doc leaves behind: the function tests
\* membership and reads inverted_index[token][doc_id], it assigns to no key
index_after_phrase_in_doc(idx, phrase_tokens, doc_id) == idx

\* search_from with a slip: a match is inserted at the front of the list
RECURSIVE search_from_prepend(_, _, _, _, _)
search_from_prepend(idx, phrase_tokens, n, doc_id, matched_docs) ==
    IF doc_id >= n THEN Returned(matched_docs, FALSE)
    ELSE LET r == phrase_in_doc(idx, phrase_tokens, doc_id)
         IN  IF r.exc # "none" THEN [r EXCEPT !.val = <<>>]
             ELSE search_from_prepend(idx, phrase_tokens, n, doc_id + 1,
                                      IF r.val THEN <<doc_id>> \o matched_docs
                                      ELSE matched_docs)

\* search_from with a slip: the loop runs to len(docs) inclusive
RECURSIVE search_from_one_more(_, _, _, _, _)
search_from_one_more(idx, phrase_tokens, n, doc_id, matched_docs) ==
    IF doc_id > n THEN Returned(matched_docs, FALSE)
    ELSE LET r == phrase_in_doc(idx, phrase_tokens, doc_id)
         IN  IF r.exc # "none" THEN [r EXCEPT !.val = <<>>]
             ELSE search_from_one_more(idx, phrase_tokens, n, doc_id + 1,
                                       IF r.val THEN Append(matched_docs, doc_id)
                                       ELSE matched_docs)

\* for doc_id in range(len(docs)): an exception of phrase_in_doc propagates
RECURSIVE search_from(_, _, _, _, _)
search_from(idx, phrase_tokens, n, doc_id, matched_docs) ==
    IF doc_id >= n THEN Returned(matched_docs, FALSE)
    ELSE LET r == phrase_in_doc(idx, phrase_tokens, doc_id)
         IN  IF r.exc # "none" THEN [r EXCEPT !.val = <<>>]
             ELSE search_from(idx, phrase_tokens, n, doc_id + 1,
                              IF r.val THEN Append(matched_docs, doc_id)
                              ELSE matched_docs)

\* phrase_search with a slip: the texts of the docs argument are read again
\* at query time
phrase_search_rescan(idx, m, phrase, ds) ==
    search_from(build_inverted_index(m, ds), Normalizer(m, phrase), Len(ds), 0, <<>>)

phrase_search(idx, m, phrase, ds) ==
    search_from(idx, Normalizer(m, phrase), Len(ds), 0, <<>>)

\* the index a call of phrase_search leaves behind: that of its calls of
\* phrase_in_doc, up to the first that raises
RECURSIVE index_after_search_from(_, _, _, _)
index_after_search_from(idx, phrase_tokens, n, doc_id) ==
    IF doc_id >= n THEN idx
    ELSE LET after == index_after_phrase_in_doc(idx, phrase_tokens, doc_id)
         IN  IF phrase_in_doc(idx, phrase_tokens, doc_id).exc # "none" THEN after
             ELSE index_after_search_from(after, phrase_tokens, n, doc_id + 1)

index_after_phrase_search(idx, m, phrase, ds) ==
    index_after_search_from(idx, Normalizer(m, phrase), Len(ds), 0)

(***************************************************************************)
(* Inputs.                                                                 *)
(***************************************************************************)
RawWords == { <<"T","h","e">>, <<"C","a","t","s",".">> }

RECURSIVE join(_)
join(ws) ==
    IF Len(ws) = 0 THEN <<>>
    ELSE IF Len(ws) = 1 THEN ws[1]
    ELSE ws[1] \o <<" ">> \o join(Tail(ws))

\* the sequences of at most n raw words
WordSeqs(n) == UNION { [1..k -> RawWords] : k \in 0..n }

\* the collections of exactly k documents with at most n words in all, each
\* document given by its words
RECURSIVE WordCollections(_, _)
WordCollections(k, n) ==
    IF k = 0 THEN { <<>> }
    ELSE UNION { { <<ws>> \o c : c \in WordCollections(k - 1, n - Len(ws)) }
                 : ws \in WordSeqs(n) }

Collections ==
    { [i \in DOMAIN c |-> join(c[i])]
      : c \in UNION { WordCollections(k, MaxWords) : k \in 0..MaxDocs } }

Texts == { join(ws) : ws \in WordSeqs(MaxPhraseWords) }

\* texts with a hyphen or an apostrophe inside a word, and the same two parts
\* written as two words
HyphenTexts == { <<"b","-","c">>, <<"b","'","c">>, <<"b"," ","c">> }

HyphenCollections == { <<t>> : t \in HyphenTexts }

\* the documents and the phrases of the phrase query test cell
SampleDocs ==
    << <<"M","a","c","h","i","n","e"," ","l","e","a","r","n","i","n","g"," ","i","s"," ","f","a","s","c","i","n","a","t","i","n","g",".">>,
       <<"D","e","e","p"," ","l","e","a","r","n","i","n","g"," ","i","s"," ","a"," ","s","u","b","s","e","t"," ","o","f"," ","m","a","c","h","i","n","e"," ","l","e","a","r","n","i","n","g",".">>,
       <<"A","r","t","i","f","i","c","i","a","l"," ","i","n","t","e","l","l","i","g","e","n","c","e"," ","i","n","c","l","u","d","e","s"," ","m","a","c","h","i","n","e"," ","l","e","a","r","n","i","n","g",".">>,
       <<"L","e","a","r","n","i","n","g"," ","a","b","o","u","t"," ","m","a","c","h","i","n","e"," ","a","l","g","o","r","i","t","h","m","s",".">> >>

MachineLearning ==
    <<"m","a","c","h","i","n","e"," ","l","e","a","r","n","i","n","g">>

DeepLearning == <<"d","e","e","p"," ","l","e","a","r","n","i","n","g">>

SamplePhrases == {MachineLearning, DeepLearning}

\* the phrases a caller may pass: the stemmer is modelled for the bounded
\* texts only, so the sample phrases are passed to the basic tokenizer only
Phrases(m) ==
    IF m = "basic" THEN Texts \cup HyphenTexts \cup SamplePhrases
    ELSE Texts \cup HyphenTexts

\* the token sequences a caller may pass to phrase_in_doc
PhraseTokens == [m \in Modes |-> { Normalizer(m, p) : p \in Phrases(m) }]

\* document lists a caller may pass to phrase_search in place of the list the
\* index was built from: without the last document, with one more document,
\* and of the same length with other texts
ExtraText == <<"C","a","t","s",".">>

OtherDocs(ds) ==
    ( { SubSeq(ds, 1, Len(ds) - 1) : k \in 1 .. (IF Len(ds) > 0 THEN 1 ELSE 0) }
      \cup { Append(ds, ExtraText) }
      \cup { [i \in DOMAIN ds |-> ExtraText] } ) \ {ds}

\* the phrases passed along with such a list: of one or two words
ShortPhrases == { join(ws) : ws \in WordSeqs(2) }

NoResult == [exc |-> "none", val |-> FALSE, examined |-> FALSE]

(***************************************************************************)
(* The notebook as a state machine: the documents are loaded, the index is *)
(* built, and queries are answered one after the other, each with any of   *)
(* the bounded inputs.  The result of a call is dropped before the next.   *)
(***************************************************************************)
Init ==
    /\ \/ mode \in Modes /\ docs \in Collections \cup HyphenCollections
       \/ mode = "basic" /\ docs = SampleDocs
    /\ inverted_index = EmptyDict
    /\ pc = "loaded"
    /\ op = "none"
    /\ q_phrase = <<>>
    /\ q_tokens = <<>>
    /\ q_doc = 0
    /\ q_docs = <<>>
    /\ result = NoResult

\* index = build_inverted_index(docs)
Build ==
    /\ pc = "loaded"
    /\ inverted_index' = build_inverted_index(mode, docs)
    /\ pc' = "built"
    /\ UNCHANGED <<mode, docs, op, q_phrase, q_tokens, q_doc, q_docs, result>>

\* a call phrase_in_doc(inverted_index, phrase_tokens, doc_id)
PhraseInDoc(phrase_tokens, doc_id) ==
    /\ pc = "built"
    /\ pc' = "answered"
    /\ op' = "phrase_in_doc"
    /\ q_phrase' = <<>>
    /\ q_tokens' = phrase_tokens
    /\ q_doc' = doc_id
    /\ q_docs' = <<>>
    /\ result' = phrase_in_doc(inverted_index, phrase_tokens, doc_id)
    /\ inverted_index' = index_after_phrase_in_doc(inverted_index, phrase_tokens, doc_id)
    /\ UNCHANGED <<mode, docs>>

\* a call phrase_search(inverted_index, phrase, docs)
PhraseSearch(phrase) ==
    /\ pc = "built"
    /\ pc' = "answered"
    /\ op' = "phrase_search"
    /\ q_phrase' = phrase
    /\ q_tokens' = Normalizer(mode, phrase)
    /\ q_doc' = 0
    /\ q_docs' = docs
    /\ result' = phrase_search(inverted_index, mode, phrase, docs)
    /\ inverted_index' = index_after_phrase_search(inverted_index, mode, phrase, docs)
    /\ UNCHANGED <<mode, docs>>

\* a call phrase_search(inverted_index, phrase, ds) with a document list ds
\* that is not the one the index was built from
PhraseSearchWith(phrase, ds) ==
    /\ pc = "built"
    /\ pc' = "answered"
    /\ op' = "phrase_search_with"
    /\ q_phrase' = phrase
    /\ q_tokens' = Normalizer(mode, phrase)
    /\ q_doc' = 0
    /\ q_docs' = ds
    /\ result' = phrase_search(inverted_index, mode, phrase, ds)
    /\ inverted_index' = index_after_phrase_search(inverted_index, mode, phrase, ds)
    /\ UNCHANGED <<mode, docs>>

\* the caller's loop goes on to the next phrase
Return ==
    /\ pc = "answered"
    /\ pc' = "built"
    /\ op' = "none"
    /\ q_phrase' = <<>>
    /\ q_tokens' = <<>>
    /\ q_doc' = 0
    /\ q_docs' = <<>>
    /\ result' = NoResult
    /\ UNCHANGED <<mode, docs, inverted_index>>

Next ==
    \/ Build
    \/ \E t \in PhraseTokens[mode], d \in 0 .. Len(docs) : PhraseInDoc(t, d)
    \/ \E p \in Phrases(mode) : PhraseSearch(p)
    \/ \E p \in ShortPhrases, ds \in OtherDocs(docs) : PhraseSearchWith(p, ds)
    \/ Return

Spec == Init /\ [][Next]_vars

(***************************************************************************)
(* What the properties are stated against: the token streams of the        *)
(* documents, read off the texts and not off the index.                    *)
(***************************************************************************)
DocIds == 0 .. Len(docs) - 1

\* the normalized token stream of document d
Stream(d) == Normalizer(mode, docs[d + 1])

\* the raw token stream of document d: before stopword removal and stemming
RawStream(d) == split(re_sub(lower(docs[d + 1])))

\* P occurs in stream contiguously and in order, starting at position s
OccursAt(stream, P, s) ==
    \A k \in 0 .. Len(P) - 1 :
        s + k < Len(stream) /\ stream[s + k + 1] = P[k + 1]

Occurs(stream, P) == \E s \in 0 .. Len(stream) - 1 : OccursAt(stream, P, s)

\* the terms of the corpus
CorpusTerms == UNION { Range(Stream(d)) : d \in DocIds }

StrictlyIncreasing(L) == \A i \in 1 .. Len(L) - 1 : L[i] < L[i + 1]

\* t has a posting list for d
HasPosting(t, d) == t \in DOMAIN inverted_index /\ d \in DOMAIN inverted_index[t]

(***************************************************************************)
(* C1: for a non-empty normalized phrase P and a document d of the         *)
(* collection, phrase_in_doc returns True exactly when P occurs            *)
(* contiguously and in order in the normalized token stream of d; phrases  *)
(* that repeat a term included.                                            *)
(***************************************************************************)
C1_PhraseInDocIffContiguous ==
    (op = "phrase_in_doc" /\ q_tokens # <<>> /\ q_doc \in DocIds)
        => /\ result.exc = "none"
           /\ result.val = Occurs(Stream(q_doc), q_tokens)

\* a three-term phrase that repeats its first term is found
C1_Witness ==
    /\ op = "phrase_in_doc"
    /\ Len(q_tokens) = 3
    /\ q_tokens[1] = q_tokens[3]
    /\ q_tokens[1] # q_tokens[2]
    /\ q_doc \in DocIds
    /\ result.val = TRUE

(***************************************************************************)
(* C2: after build_inverted_index the keys of the index are the terms of   *)
(* the corpus, the doc ids under a term are the documents the term occurs  *)
(* in, and each position list is non-empty, strictly increasing and holds  *)
(* exactly the zero-based positions of the term in the document's stream.  *)
(***************************************************************************)
C2_IndexIsExact ==
    pc = "built"
        => /\ DOMAIN inverted_index = CorpusTerms
           /\ \A t \in DOMAIN inverted_index : DOMAIN inverted_index[t] \subseteq DocIds
           /\ \A d \in DocIds :
                 LET stream == Stream(d)
                     terms  == Range(stream)
                 IN  \A t \in DOMAIN inverted_index :
                        /\ d \in DOMAIN inverted_index[t] <=> t \in terms
                        /\ d \in DOMAIN inverted_index[t]
                              => LET L == inverted_index[t][d]
                                 IN  /\ Len(L) >= 1
                                     /\ StrictlyIncreasing(L)
                                     /\ Range(L) = { p \in 0 .. Len(stream) - 1 :
                                                       stream[p + 1] = t }

\* a term in two documents, twice in one of them
C2_Witness ==
    /\ pc = "built"
    /\ \E t \in DOMAIN inverted_index :
          /\ Cardinality(DOMAIN inverted_index[t]) = 2
          /\ \E d \in DOMAIN inverted_index[t] : Len(inverted_index[t][d]) = 2

\* the doc ids 0 .. n-1 for which phrase_in_doc returns True, ascending
IsMatch(d) ==
    LET r == phrase_in_doc(inverted_index, q_tokens, d)
    IN  r.exc = "none" /\ r.val = TRUE

MatchingIds == SelectSeq([i \in 1 .. Len(docs) |-> i - 1], IsMatch)

(***************************************************************************)
(* C3: phrase_search returns exactly the doc ids of 0 .. len(docs)-1 for   *)
(* which phrase_in_doc is True on the normalized phrase, in ascending      *)
(* order.                                                                  *)
(***************************************************************************)
C3_SearchReturnsMatches ==
    op = "phrase_search"
        => /\ result.exc = "none"
           /\ result.val = MatchingIds

(***************************************************************************)
(* C4: the list phrase_search returns is strictly ascending, so without a  *)
(* duplicate, and each of its elements is an integer of 0 .. len(docs)-1.  *)
(***************************************************************************)
C4_SearchResultAscending ==
    (op = "phrase_search" /\ result.exc = "none")
        => /\ StrictlyIncreasing(result.val)
           /\ \A i \in DOMAIN result.val : result.val[i] \in DocIds

\* a search that lists two documents
C4_Witness ==
    /\ op = "phrase_search"
    /\ result.exc = "none"
    /\ Len(result.val) >= 2

(***************************************************************************)
(* C5: for an empty normalized phrase phrase_in_doc returns False for      *)
(* every doc id, and raises nothing.                                       *)
(***************************************************************************)
C5_EmptyPhraseIsFalse ==
    (op = "phrase_in_doc" /\ q_tokens = <<>>)
        => result.exc = "none" /\ result.val = FALSE

(***************************************************************************)
(* C6: for a phrase that normalizes to no term phrase_search returns the   *)
(* empty list, whatever the collection, and raises nothing.                *)
(***************************************************************************)
C6_EmptyPhraseSearchIsEmpty ==
    (op = "phrase_search" /\ q_tokens = <<>>)
        => result.exc = "none" /\ result.val = <<>>

(***************************************************************************)
(* C7: for a single term t, phrase_in_doc(index, [t], d) is True exactly   *)
(* when t has a non-empty position list for d.                             *)
(***************************************************************************)
C7_SingleTerm ==
    (op = "phrase_in_doc" /\ Len(q_tokens) = 1)
        => /\ result.exc = "none"
           /\ result.val = ( /\ HasPosting(q_tokens[1], q_doc)
                             /\ Len(inverted_index[q_tokens[1]][q_doc]) > 0 )

\* a single term that is found
C7_Witness ==
    /\ op = "phrase_in_doc"
    /\ Len(q_tokens) = 1
    /\ result.val = TRUE

(***************************************************************************)
(* C8: when a term of a non-empty phrase is no key of the index or has no  *)
(* entry for doc_id, phrase_in_doc returns False, raises nothing and reads *)
(* no position; a phrase with a term the corpus never has makes            *)
(* phrase_search return the empty list.                                    *)
(***************************************************************************)
C8_UnknownTermShortCircuits ==
    /\ ( /\ op = "phrase_in_doc"
         /\ \E i \in DOMAIN q_tokens : ~HasPosting(q_tokens[i], q_doc) )
           => /\ result.exc = "none"
              /\ result.val = FALSE
              /\ result.examined = FALSE
    /\ ( /\ op = "phrase_search"
         /\ \E i \in DOMAIN q_tokens : q_tokens[i] \notin CorpusTerms )
           => /\ result.exc = "none"
              /\ result.val = <<>>

\* the first term of the phrase is in the document, the second is not
C8_Witness ==
    /\ op = "phrase_in_doc"
    /\ Len(q_tokens) >= 2
    /\ HasPosting(q_tokens[1], q_doc)
    /\ ~HasPosting(q_tokens[2], q_doc)
    /\ result.val = FALSE

(***************************************************************************)
(* C9: matching is sensitive to order and adjacency: every document        *)
(* phrase_search lists has the phrase terms adjacent and in order.  On the *)
(* four sample documents "machine learning" gives [0, 1, 2] and            *)
(* "deep learning" gives [1].                                              *)
(***************************************************************************)
C9_OrderSensitive ==
    (op = "phrase_search" /\ result.exc = "none")
        => /\ \A i \in DOMAIN result.val :
                 Occurs(Stream(result.val[i]), q_tokens)
           /\ (docs = SampleDocs /\ q_phrase = MachineLearning)
                 => result.val = <<0, 1, 2>>
           /\ (docs = SampleDocs /\ q_phrase = DeepLearning)
                 => result.val = <<1>>

\* "machine learning" on the sample documents: document 3 is left out
C9_Witness ==
    /\ op = "phrase_search"
    /\ docs = SampleDocs
    /\ q_phrase = MachineLearning
    /\ result.val = <<0, 1, 2>>

\* the number of tokens of raw before index i that are kept
KeptBefore(raw, i) == Cardinality({ j \in 1 .. i - 1 : raw[j] \notin stop_words })

\* raw tokens i < j are kept and only stopwords lie between them
OnlyStopwordsBetween(raw, i, j) ==
    /\ i < j
    /\ raw[i] \notin stop_words
    /\ raw[j] \notin stop_words
    /\ \A k \in i + 1 .. j - 1 : raw[k] \in stop_words

(***************************************************************************)
(* C10: with stopword removal, the positions of the index count the kept   *)
(* tokens only: a kept raw token is indexed at the number of kept tokens   *)
(* before it, a document's positions are 0 .. kept-1 without a gap, and    *)
(* two terms with only stopwords between them match as an adjacent phrase. *)
(***************************************************************************)
C10_PositionsArePostFilter ==
    /\ (pc = "built" /\ mode = "normalize")
          => \A d \in DocIds :
                LET raw == RawStream(d)
                IN  /\ \A i \in DOMAIN raw :
                          raw[i] \notin stop_words
                              => /\ HasPosting(stem(raw[i]), d)
                                 /\ KeptBefore(raw, i)
                                        \in Range(inverted_index[stem(raw[i])][d])
                    /\ UNION { Range(inverted_index[t][d])
                               : t \in { u \in DOMAIN inverted_index :
                                           d \in DOMAIN inverted_index[u] } }
                           = 0 .. KeptBefore(raw, Len(raw) + 1) - 1
    /\ (mode = "normalize" /\ op = "phrase_in_doc" /\ Len(q_tokens) = 2 /\ q_doc \in DocIds)
          => LET raw == RawStream(q_doc)
             IN  (\E i, j \in DOMAIN raw :
                      /\ OnlyStopwordsBetween(raw, i, j)
                      /\ stem(raw[i]) = q_tokens[1]
                      /\ stem(raw[j]) = q_tokens[2])
                  => result.exc = "none" /\ result.val = TRUE

\* two terms with a stopword between them in the raw text are found as a phrase
C10_Witness ==
    /\ mode = "normalize"
    /\ op = "phrase_in_doc"
    /\ Len(q_tokens) = 2
    /\ q_doc \in DocIds
    /\ \E i, j \in DOMAIN RawStream(q_doc) :
          /\ j > i + 1
          /\ OnlyStopwordsBetween(RawStream(q_doc), i, j)
          /\ stem(RawStream(q_doc)[i]) = q_tokens[1]
          /\ stem(RawStream(q_doc)[j]) = q_tokens[2]
    /\ result.val = TRUE

\* the lower-case letters and the digits
Alnum == Range(LowerCase) \cup Digits

is_alnum(c) == c \in Alnum

not_empty(w) == w # <<>>

\* the words of document d, a word being a maximal run of non-whitespace
\* characters of the text as written, each reduced to its letters and digits
\* in lower case; a word without any yields nothing
WordsKept(d) ==
    LET words == split(lower(docs[d + 1]))
    IN  SelectSeq([i \in DOMAIN words |-> SelectSeq(words[i], is_alnum)], not_empty)

\* the positions the index holds for document d
PositionsOf(d) ==
    UNION { Range(inverted_index[t][d])
            : t \in { u \in DOMAIN inverted_index : d \in DOMAIN inverted_index[u] } }

\* every token of the index is made of lower-case letters and digits only
OnlyAlnumTerms ==
    \A t \in DOMAIN inverted_index : \A i \in DOMAIN t : t[i] \in Alnum

(***************************************************************************)
(* C11 as amended: the normalizer removes every character that is no       *)
(* letter, digit or whitespace, and the removal joins what is left of the  *)
(* word: a raw token is a whitespace-delimited word without its removed    *)
(* characters, so a-b yields the one token ab at one position.             *)
(***************************************************************************)
C11_RemovalJoinsWord ==
    pc = "built"
        => /\ OnlyAlnumTerms
           /\ mode = "basic"
                 => \A d \in DocIds :
                       LET words == WordsKept(d)
                       IN  /\ \A p \in 0 .. Len(words) - 1 :
                                 /\ HasPosting(words[p + 1], d)
                                 /\ p \in Range(inverted_index[words[p + 1]][d])
                           /\ PositionsOf(d) = 0 .. Len(words) - 1

\* a document with a hyphen or an apostrophe inside a word is indexed under
\* the joined token
C11_Witness ==
    /\ pc = "built"
    /\ mode = "basic"
    /\ Len(docs) = 1
    /\ \E i \in DOMAIN docs[1] : docs[1][i] \in {"-", "'"}
    /\ HasPosting(<<"b", "c">>, 0)
    /\ inverted_index[<<"b", "c">>][0] = <<0>>

\* C11 as claimed: the characters are removed, and a hyphen or an apostrophe
\* inside a word splits it into two raw tokens with consecutive positions
C11_HyphenSplitsWord ==
    (pc = "built" /\ mode = "basic")
        => /\ OnlyAlnumTerms
           /\ \A d \in DocIds :
                 LET words == split(lower(docs[d + 1]))
                 IN  \A n \in DOMAIN words : \A i \in 2 .. Len(words[n]) - 1 :
                        LET a == SelectSeq(SubSeq(words[n], 1, i - 1), is_alnum)
                            b == SelectSeq(SubSeq(words[n], i + 1, Len(words[n])), is_alnum)
                        IN  (words[n][i] \in {"-", "'"} /\ a # <<>> /\ b # <<>>)
                               => /\ HasPosting(a, d)
                                  /\ HasPosting(b, d)
                                  /\ \E p \in Range(inverted_index[a][d]) :
                                        p + 1 \in Range(inverted_index[b][d])

(***************************************************************************)
(* C12: an empty document collection gives an index without terms, and     *)
(* phrase_search over it returns the empty list for every phrase, a phrase *)
(* that normalizes to no term included.                                    *)
(***************************************************************************)
C12_EmptyCollection ==
    (docs = <<>> /\ pc # "loaded")
        => /\ DOMAIN inverted_index = {}
           /\ op = "phrase_search"
                 => result.exc = "none" /\ result.val = <<>>

\* a search of the empty collection for a phrase without terms
C12_Witness ==
    /\ docs = <<>>
    /\ op = "phrase_search"
    /\ q_tokens = <<>>
    /\ result.val = <<>>

(***************************************************************************)
(* C13: a document that normalizes to no token adds no term and no doc id  *)
(* entry to the index and still takes its doc id, so the documents after   *)
(* it keep theirs; phrase_search never lists it for a phrase that          *)
(* normalizes to at least one term.                                        *)
(***************************************************************************)
C13_EmptyDocument ==
    /\ pc = "built"
          => /\ \A t \in DOMAIN inverted_index :
                   /\ DOMAIN inverted_index[t] # {}
                   /\ \A d \in DOMAIN inverted_index[t] :
                         d \in DocIds /\ Stream(d) # <<>>
             /\ \A d \in DocIds :
                   Stream(d) # <<>>
                       => /\ HasPosting(Stream(d)[1], d)
                          /\ inverted_index[Stream(d)[1]][d][1] = 0
    /\ (op = "phrase_search" /\ q_tokens # <<>>)
          => /\ result.exc = "none"
             /\ \A i \in DOMAIN result.val :
                   /\ result.val[i] \in DocIds
                   /\ Stream(result.val[i]) # <<>>

\* the first document has no token, the second is found under doc id 1
C13_Witness ==
    /\ op = "phrase_search"
    /\ Len(docs) = 2
    /\ Stream(0) = <<>>
    /\ q_tokens # <<>>
    /\ result.val = <<1>>

(***************************************************************************)
(* C15: queries are read-only.  Every step taken once the index is built,  *)
(* a call of phrase_in_doc or phrase_search with known or unknown terms    *)
(* and doc ids or the return to the caller, leaves the index with the same *)
(* terms, doc id entries and position lists and leaves the documents       *)
(* unchanged; no lookup creates a key.                                     *)
(***************************************************************************)
C15_QueriesReadOnly ==
    [][pc # "loaded"
          => /\ inverted_index' = inverted_index
             /\ DOMAIN inverted_index' = DOMAIN inverted_index
             /\ docs' = docs]_vars

\* phrase_in_doc has been called with a term the index does not hold and a
\* doc id past the collection, and the index holds the built terms only
C15_Witness ==
    /\ op = "phrase_in_doc"
    /\ q_doc \notin DocIds
    /\ \E i \in DOMAIN q_tokens : q_tokens[i] \notin DOMAIN inverted_index
    /\ DOMAIN inverted_index # {}
    /\ DOMAIN inverted_index = CorpusTerms

(***************************************************************************)
(* C16: sub-phrase monotonicity.  When phrase_in_doc returns True for a    *)
(* token sequence P and a document d of the built index, it returns True   *)
(* for every non-empty contiguous sub-sequence of P and d, every non-empty *)
(* prefix and suffix among them.                                           *)
(***************************************************************************)
C16_SubPhraseMonotone ==
    (op = "phrase_in_doc" /\ result.exc = "none" /\ result.val = TRUE)
        => \A i \in DOMAIN q_tokens : \A j \in i .. Len(q_tokens) :
              LET sub == phrase_in_doc(inverted_index, SubSeq(q_tokens, i, j), q_doc)
              IN  sub.exc = "none" /\ sub.val = TRUE

\* a phrase of three terms, not all the same, found in a document
C16_Witness ==
    /\ op = "phrase_in_doc"
    /\ result.exc = "none"
    /\ result.val = TRUE
    /\ Len(q_tokens) = 3
    /\ Cardinality(Range(q_tokens)) >= 2

(***************************************************************************)
(* C17: phrase_search uses its docs argument through len(docs) only.       *)
(* Called with a list that is not the one the index was built from and a   *)
(* phrase that normalizes to at least one term, it raises nothing and      *)
(* returns, ascending, the ids below the length of the list whose built    *)
(* document holds the phrase: with a shorter list the matching documents   *)
(* from its length on are left out, with a longer list the extra ids do    *)
(* not match, and the texts of the list make no difference.                *)
(***************************************************************************)
C17_DocsUsedForLengthOnly ==
    (op = "phrase_search_with" /\ q_tokens # <<>>)
        => /\ result.exc = "none"
           /\ StrictlyIncreasing(result.val)
           /\ Range(result.val)
                 = { d \in DocIds : /\ d < Len(q_docs)
                                    /\ Occurs(Stream(d), q_tokens) }

\* the list passed is shorter and the last built document, which holds the
\* phrase, is left out of the answer
C17_Witness ==
    /\ op = "phrase_search_with"
    /\ q_tokens # <<>>
    /\ Len(q_docs) < Len(docs)
    /\ Occurs(Stream(Len(docs) - 1), q_tokens)
    /\ Len(docs) - 1 \notin Range(result.val)
    /\ result.exc = "none"

====
